---- MODULE Spec2Model ----
(***************************************************************************)
(* Model of src/config/db.js: the process-wide sqlite connection (getDb,   *)
(* wrapDb), the schema bootstrap (initDb) and the points_ledger migration  *)
(* (ensurePointsLedgerSchema), run against a database file that outlives   *)
(* the process.                                                            *)
(***************************************************************************)
EXTENDS Integers, Sequences, FiniteSets, TLC

\* ------------------------------------------------------------------ bounds
MaxInitCalls == 2      \* initDb calls per process life
MaxLedgerRows == 1     \* points_ledger rows in the initial database file

\* ------------------------------------------------------------- SQL values
NULL == 0 - 1          \* SQL NULL
EMPTY == 0 - 2         \* the empty string '' stored in an INTEGER column
SeriesA == 1           \* series.id values of the populated database
SeriesB == 2
MatchA == 10           \* matches.id of the one match, which is in SeriesA
UserBob == 1           \* users.id of the pre-existing user

SeriesIds == {SeriesA, SeriesB}
Calls == 1..MaxInitCalls

Tables == {"users", "series", "series_members", "matches", "predictions",
           "points_ledger"}
TableOrder == <<"users", "series", "series_members", "matches", "predictions",
                "points_ledger">>
Indexes == {"idx_points_ledger_series_user", "idx_points_ledger_match"}

\* A column of points_ledger: absent, added by ALTER TABLE (nullable, no
\* REFERENCES clause), or declared by CREATE TABLE (NOT NULL, FOREIGN KEY).
ColKinds == {"absent", "added", "declared"}

\* ----------------------------------------------------------- driver errors
NoErr == [name |-> "none", code |-> "OK"]
DriverError(c) == [name |-> "Error", code |-> c]
Misuse == DriverError("SQLITE_MISUSE")
UniqueErr == DriverError("SQLITE_CONSTRAINT_UNIQUE")
NotNullErr == DriverError("SQLITE_CONSTRAINT_NOTNULL")
ForeignKeyErr == DriverError("SQLITE_CONSTRAINT_FOREIGNKEY")
DuplicateColumnErr == DriverError("SQLITE_ERROR")
Result == [name |-> "result", code |-> "OK"]

\* wrapDb: the promise each wrapped call returns, settled from the driver's
\* callback: (err ? reject(err) : resolve(value)).
WrapSettle_Swallow(err) == [state |-> "resolved", value |-> Result]
WrapSettle(err) ==
    IF err # NoErr THEN [state |-> "rejected", value |-> err]
                   ELSE [state |-> "resolved", value |-> Result]


VARIABLES
    \* the database file
    tables, users, series, seriesMembers, matches, predictions, ledger,
    colSeries, colMatch, indexes,
    \* the process: the module's singleton and its native connection
    dbInstance, handlesCreated, returned, openOk, closed, pragma, fkOn,
    getDbPromise, getDbAfterClose,
    \* the initDb calls in flight
    pc, locals,
    \* bookkeeping the properties read
    rejection, startedAfterInit, initialised, crashed, origin

dbVars == <<tables, users, series, seriesMembers, matches, predictions, ledger,
            colSeries, colMatch, indexes>>
connVars == <<dbInstance, handlesCreated, returned, openOk, closed, pragma,
              fkOn, getDbPromise, getDbAfterClose>>
callVars == <<pc, locals>>
histVars == <<rejection, startedAfterInit, initialised, crashed, origin>>
vars == <<dbVars, connVars, callVars, histVars>>

\* ------------------------------------------------------------------- Init
AdminName == "admin"
AdminRow(c) == [username |-> AdminName, is_admin |-> 1, stamp |-> c]
BobRow == [username |-> "bob", is_admin |-> 0, stamp |-> 0]

MatchIdValues == {NULL, MatchA}
SeriesIdValues == {NULL, EMPTY, SeriesA, SeriesB}

\* The values a column of the given kind can hold.
ColumnAllows(kind, v) ==
    CASE kind = "absent" -> v = NULL
      [] kind = "declared" -> v # NULL
      [] OTHER -> TRUE

LedgerRows(cs, cm) ==
    {r \in [match_id : MatchIdValues, series_id : SeriesIdValues] :
        ColumnAllows(cm, r.match_id) /\ ColumnAllows(cs, r.series_id)}

\* Tables of up to MaxLedgerRows rows. No statement of the module reads a
\* row's position, so one order of each collection of rows stands for all.
RowKey(r) == r.match_id * 100 + r.series_id
LedgerTables(cs, cm) ==
    {l \in UNION {[1..n -> LedgerRows(cs, cm)] : n \in 0..MaxLedgerRows} :
        \A i, j \in DOMAIN l : i < j => RowKey(l[i]) <= RowKey(l[j])}

\* The shapes of points_ledger a database file can have when the process
\* starts: no table at all, the table initDb creates, or a table of an
\* earlier schema that lacks series_id and/or match_id (or carries them as
\* plain nullable columns).
InitShapes ==
    {[shape |-> "empty", cs |-> "absent", cm |-> "absent"],
     [shape |-> "current", cs |-> "declared", cm |-> "declared"]}
    \cup {[shape |-> "legacy", cs |-> s, cm |-> m] : s, m \in {"absent", "added"}}

\* The locals of ensurePointsLedgerSchema that live across an await; none
\* before the PRAGMA table_info answer and none once the call has ended.
NoLocals == [hasSeriesId |-> FALSE, hasMatchId |-> FALSE]

\* What the properties need to know of the file the process started on: no
\* tables at all, a points_ledger lacking one of the two columns, or other.
Origin(sh) ==
    IF sh.shape = "empty" THEN "empty"
    ELSE IF sh.cs = "absent" \/ sh.cm = "absent" THEN "lacking"
    ELSE "other"

InitProcess ==
    /\ dbInstance = 0 /\ handlesCreated = 0 /\ returned = {}
    /\ openOk = TRUE /\ closed = FALSE /\ pragma = "none" /\ fkOn = FALSE
    /\ getDbPromise = "none" /\ getDbAfterClose = FALSE
    /\ pc = [c \in Calls |-> "idle"]
    /\ locals = [c \in Calls |-> NoLocals]
    /\ rejection = [c \in Calls |-> NoErr]
    /\ startedAfterInit = [c \in Calls |-> FALSE]

Init ==
    /\ InitProcess
    /\ initialised = FALSE
    /\ crashed = FALSE
    /\ \E sh \in InitShapes, populated \in BOOLEAN :
        /\ sh.shape = "empty" => ~populated
        /\ origin = Origin(sh)
        /\ tables = IF sh.shape = "empty" THEN {} ELSE Tables
        /\ colSeries = sh.cs
        /\ colMatch = sh.cm
        /\ indexes = IF sh.shape = "current" THEN Indexes ELSE {}
        /\ users = IF populated THEN <<BobRow>> ELSE <<>>
        /\ series = IF populated THEN SeriesIds ELSE {}
        /\ seriesMembers = IF populated
                             THEN {<<s, UserBob>> : s \in SeriesIds} ELSE {}
        /\ matches = IF populated
                       THEN {[id |-> MatchA, series_id |-> SeriesA]} ELSE {}
        /\ predictions = IF populated THEN {<<MatchA, UserBob>>} ELSE {}
        /\ ledger \in (IF sh.shape = "empty" THEN {<<>>}
                                            ELSE LedgerTables(sh.cs, sh.cm))

\* ------------------------------------------------------------ connection
\* getDb line 105: if (!dbInstance)
NeedsOpen_Always(inst) == TRUE
NeedsOpen(inst) == inst = 0

\* getDb's body: on the first call open the native connection, queue the
\* PRAGMA on it (no callback, not awaited) and cache the wrapper; return the
\* cached wrapper. Whether the file can be opened is the environment's choice.
GetDbBody ==
    /\ IF NeedsOpen(dbInstance)
         THEN /\ handlesCreated' = handlesCreated + 1
              /\ dbInstance' = handlesCreated + 1
              /\ openOk' \in BOOLEAN
              /\ closed' = FALSE
              /\ pragma' = "queued"
              /\ fkOn' = FALSE
         ELSE UNCHANGED <<handlesCreated, dbInstance, openOk, closed, pragma,
                          fkOn>>
    /\ returned' = returned \cup {dbInstance'}
    /\ getDbPromise' = "resolved"
    /\ getDbAfterClose' = (getDbAfterClose \/ closed)

\* A caller other than initDb calls getDb().
GetDb ==
    /\ GetDbBody
    /\ UNCHANGED <<dbVars, callVars, histVars>>

\* The driver runs the queued PRAGMA foreign_keys = ON. Its outcome has no
\* callback to go to.
DriverRunPragma ==
    /\ pragma = "queued"
    /\ pragma' = IF openOk THEN "ok" ELSE "err"
    /\ fkOn' = openOk
    /\ UNCHANGED <<dbInstance, handlesCreated, returned, openOk, closed,
                   getDbPromise, getDbAfterClose, dbVars, callVars,
                   histVars>>

\* The driver runs statements in the order they were issued: nothing issued
\* through the handle runs before the PRAGMA queued at open.
DriverReady == dbInstance # 0 /\ pragma # "queued"

\* The error every statement gets on a connection that did not open or was
\* closed.
ConnErr == IF openOk /\ ~closed THEN NoErr ELSE Misuse

\* handle.close()
CloseDb ==
    /\ DriverReady
    /\ closed' = (closed \/ ConnErr = NoErr)
    /\ UNCHANGED <<dbInstance, handlesCreated, returned, openOk, pragma,
                   fkOn, getDbPromise, getDbAfterClose, dbVars, callVars,
                   histVars>>

\* ------------------------------------------------------------------ initDb
\* await p, with the locals as l while the call goes on: when the promise
\* rejects, the async function ends there and its own promise rejects with
\* the same value; otherwise it goes on.
Await(c, p, next, l) ==
    IF p.state = "rejected"
      THEN /\ pc' = [pc EXCEPT ![c] = "rejected"]
           /\ rejection' = [rejection EXCEPT ![c] = p.value]
           /\ locals' = [locals EXCEPT ![c] = NoLocals]
      ELSE /\ pc' = [pc EXCEPT ![c] = next]
           /\ UNCHANGED rejection
           /\ locals' = [locals EXCEPT ![c] =
                            IF next = "done" THEN NoLocals ELSE l]

\* initDb is called: const db = await getDb();
InitDbStart(c) ==
    /\ pc[c] = "idle"
    /\ \A d \in Calls : d < c => pc[d] # "idle"
    /\ GetDbBody
    /\ pc' = [pc EXCEPT ![c] = "exec"]
    /\ startedAfterInit' = [startedAfterInit EXCEPT ![c] = initialised]
    /\ UNCHANGED <<dbVars, locals, rejection, initialised, crashed, origin>>

\* The tables the first k CREATE TABLE IF NOT EXISTS statements leave.
TablesAfter(k) == tables \cup {TableOrder[i] : i \in 1..k}

\* await db.exec(PRAGMA foreign_keys = ON; CREATE TABLE IF NOT EXISTS ... x 6)
InitExec(c) ==
    /\ pc[c] = "exec"
    /\ DriverReady
    /\ LET err == ConnErr IN
        /\ IF err = NoErr
             THEN /\ fkOn' = TRUE
                  /\ tables' = TablesAfter(Len(TableOrder))
                  /\ IF "points_ledger" \in tables
                       THEN UNCHANGED <<colSeries, colMatch>>
                       ELSE colSeries' = "declared" /\ colMatch' = "declared"
             ELSE UNCHANGED <<fkOn, tables, colSeries, colMatch>>
        /\ Await(c, WrapSettle(err), "count", locals[c])
    /\ UNCHANGED <<users, series, seriesMembers, matches, predictions,
                   ledger, indexes, dbInstance, handlesCreated, returned,
                   openOk, closed, pragma, getDbPromise, getDbAfterClose,
                   startedAfterInit, initialised, crashed, origin>>

\* line 192: if (!count || count.c === 0)
NeedsBootstrap_Always(n) == TRUE
NeedsBootstrap(n) == n = 0

\* const count = await db.get('SELECT COUNT(*) as c FROM users');
InitCount(c) ==
    /\ pc[c] = "count"
    /\ DriverReady
    /\ LET err == ConnErr IN
        /\ Await(c, WrapSettle(err),
                 IF NeedsBootstrap(Len(users)) THEN "hash" ELSE "mig_info",
                 locals[c])
    /\ UNCHANGED <<dbVars, connVars, startedAfterInit, initialised, crashed,
                   origin>>

\* const hash = await bcrypt.hash(password, 10);
InitHash(c) ==
    /\ pc[c] = "hash"
    /\ pc' = [pc EXCEPT ![c] = "insert"]
    /\ UNCHANGED <<dbVars, connVars, locals, histVars>>

\* users.username is UNIQUE.
InsertErr(name) ==
    IF ConnErr # NoErr THEN ConnErr
    ELSE IF \E i \in DOMAIN users : users[i].username = name THEN UniqueErr
    ELSE NoErr

\* await db.run('INSERT INTO users (...) VALUES (?,?,?,?,?)', [...])
InitInsert(c) ==
    /\ pc[c] = "insert"
    /\ DriverReady
    /\ LET err == InsertErr(AdminName) IN
        /\ users' = IF err = NoErr THEN Append(users, AdminRow(c)) ELSE users
        /\ Await(c, WrapSettle(err), "mig_info", locals[c])
    /\ UNCHANGED <<tables, series, seriesMembers, matches, predictions,
                   ledger, colSeries, colMatch, indexes, connVars,
                   startedAfterInit, initialised, crashed, origin>>

\* ------------------------------------------------ ensurePointsLedgerSchema
\* names.includes('series_id'), names.includes('match_id')
HasColumn_Never(kind) == FALSE
HasColumn(kind) == kind # "absent"

AfterInfo(hs, hm) ==
    IF ~hs THEN "mig_alter_s" ELSE IF ~hm THEN "mig_alter_m" ELSE "mig_backfill"

\* const cols = await db.all(`PRAGMA table_info(points_ledger);`);
MigInfo(c) ==
    /\ pc[c] = "mig_info"
    /\ DriverReady
    /\ LET err == ConnErr
           hs == err = NoErr /\ HasColumn(colSeries)
           hm == err = NoErr /\ HasColumn(colMatch) IN
        /\ Await(c, WrapSettle(err), AfterInfo(hs, hm),
                 [hasSeriesId |-> hs, hasMatchId |-> hm])
    /\ UNCHANGED <<dbVars, connVars, startedAfterInit, initialised, crashed,
                   origin>>

\* ALTER TABLE ... ADD COLUMN fails on a column the table already has.
AlterErr(kind) ==
    IF ConnErr # NoErr THEN ConnErr
    ELSE IF kind # "absent" THEN DuplicateColumnErr
    ELSE NoErr

\* await db.run(`ALTER TABLE points_ledger ADD COLUMN series_id INTEGER;`);
MigAlterSeries(c) ==
    /\ pc[c] = "mig_alter_s"
    /\ DriverReady
    /\ LET err == AlterErr(colSeries) IN
        /\ colSeries' = IF err = NoErr THEN "added" ELSE colSeries
        /\ Await(c, WrapSettle(err),
                 IF ~locals[c].hasMatchId THEN "mig_alter_m" ELSE "mig_backfill",
                 locals[c])
    /\ UNCHANGED <<tables, users, series, seriesMembers, matches,
                   predictions, ledger, colMatch, indexes, connVars,
                   startedAfterInit, initialised, crashed, origin>>

\* await db.run(`ALTER TABLE points_ledger ADD COLUMN match_id INTEGER;`);
MigAlterMatch(c) ==
    /\ pc[c] = "mig_alter_m"
    /\ DriverReady
    /\ LET err == AlterErr(colMatch) IN
        /\ colMatch' = IF err = NoErr THEN "added" ELSE colMatch
        /\ Await(c, WrapSettle(err), "mig_backfill", locals[c])
    /\ UNCHANGED <<tables, users, series, seriesMembers, matches,
                   predictions, ledger, colSeries, indexes, connVars,
                   startedAfterInit, initialised, crashed, origin>>

\* WHERE (series_id IS NULL OR series_id = '') AND match_id IS NOT NULL
BackfillTarget(r) ==
    (r.series_id = NULL \/ r.series_id = EMPTY) /\ r.match_id # NULL

\* (SELECT m.series_id FROM matches m WHERE m.id = points_ledger.match_id):
\* NULL when no row matches.
SubquerySeries_Null(ms, mid) == NULL
SubquerySeries(ms, mid) ==
    IF \E m \in ms : m.id = mid
      THEN (CHOOSE m \in ms : m.id = mid).series_id
      ELSE NULL

\* The table the UPDATE would leave.
Backfilled(l, ms) ==
    [i \in DOMAIN l |->
        IF BackfillTarget(l[i])
          THEN [l[i] EXCEPT !.series_id = SubquerySeries(ms, l[i].match_id)]
          ELSE l[i]]

\* The UPDATE aborts, changing nothing, when a value it assigns breaks the
\* column's NOT NULL or (with enforcement on) its FOREIGN KEY.
BackfillErr ==
    LET new == Backfilled(ledger, matches)
        touched == {i \in DOMAIN ledger : BackfillTarget(ledger[i])} IN
    IF ConnErr # NoErr THEN ConnErr
    ELSE IF colSeries = "declared" /\ \E i \in touched : new[i].series_id = NULL
      THEN NotNullErr
    ELSE IF colSeries = "declared" /\ fkOn
            /\ \E i \in touched : new[i].series_id \notin series
      THEN ForeignKeyErr
    ELSE NoErr

\* await db.run(`UPDATE points_ledger SET series_id = (...) WHERE ...`);
MigBackfill(c) ==
    /\ pc[c] = "mig_backfill"
    /\ DriverReady
    /\ LET err == BackfillErr IN
        /\ ledger' = IF err = NoErr THEN Backfilled(ledger, matches) ELSE ledger
        /\ Await(c, WrapSettle(err), "mig_idx_su", locals[c])
    /\ UNCHANGED <<tables, users, series, seriesMembers, matches,
                   predictions, colSeries, colMatch, indexes, connVars,
                   startedAfterInit, initialised, crashed, origin>>

\* await db.run(`CREATE INDEX IF NOT EXISTS idx_points_ledger_series_user ...`);
MigIndexSeriesUser(c) ==
    /\ pc[c] = "mig_idx_su"
    /\ DriverReady
    /\ LET err == ConnErr IN
        /\ indexes' = IF err = NoErr
                        THEN indexes \cup {"idx_points_ledger_series_user"}
                        ELSE indexes
        /\ Await(c, WrapSettle(err), "mig_idx_m", locals[c])
    /\ UNCHANGED <<tables, users, series, seriesMembers, matches,
                   predictions, ledger, colSeries, colMatch, connVars,
                   startedAfterInit, initialised, crashed, origin>>

\* await db.run(`CREATE INDEX IF NOT EXISTS idx_points_ledger_match ...`);
\* and the migration, and with it initDb, returns.
MigIndexMatch(c) ==
    /\ pc[c] = "mig_idx_m"
    /\ DriverReady
    /\ LET err == ConnErr IN
        /\ indexes' = IF err = NoErr
                        THEN indexes \cup {"idx_points_ledger_match"}
                        ELSE indexes
        /\ Await(c, WrapSettle(err), "done", locals[c])
        /\ initialised' = (initialised \/ err = NoErr)
    /\ UNCHANGED <<tables, users, series, seriesMembers, matches,
                   predictions, ledger, colSeries, colMatch, connVars,
                   startedAfterInit, crashed, origin>>

\* ------------------------------------------- a caller's DELETE FROM series
\* matches.series_id REFERENCES series(id) ON DELETE CASCADE
MatchesOf(s) == {m \in matches : m.series_id = s}

\* points_ledger rows whose declared foreign keys (series_id -> series,
\* match_id -> matches, neither with ON DELETE CASCADE) would be left
\* dangling by deleting series s and, by cascade, its matches.
LedgerRefs_None(s) == {}
LedgerRefs(s) ==
    {i \in DOMAIN ledger :
        \/ colSeries = "declared" /\ ledger[i].series_id = s
        \/ colMatch = "declared"
           /\ \E m \in MatchesOf(s) : ledger[i].match_id = m.id}

DeleteErr(s) ==
    IF ConnErr # NoErr THEN ConnErr
    ELSE IF fkOn /\ LedgerRefs(s) # {} THEN ForeignKeyErr
    ELSE NoErr

\* db.run('DELETE FROM series WHERE id = ?', [s]) by a caller holding the
\* handle. With enforcement on, the delete cascades to series_members and
\* matches (and from matches to predictions).
DeleteSeries(s) ==
    /\ DriverReady
    /\ s \in series
    /\ LET err == DeleteErr(s) IN
        /\ IF err # NoErr
             THEN UNCHANGED <<series, seriesMembers, matches, predictions>>
             ELSE /\ series' = series \ {s}
                  /\ IF fkOn
                       THEN /\ seriesMembers' = {sm \in seriesMembers : sm[1] # s}
                            /\ matches' = matches \ MatchesOf(s)
                            /\ predictions' =
                                 {p \in predictions :
                                    \A m \in MatchesOf(s) : p[1] # m.id}
                       ELSE UNCHANGED <<seriesMembers, matches, predictions>>
    /\ UNCHANGED <<tables, users, ledger, colSeries, colMatch, indexes,
                   connVars, callVars, histVars>>

\* ------------------------------------------------------------------ crash
\* The process dies and a new one loads the module: dbInstance is null again,
\* no call is in flight; the database file is what the statements run so far
\* left.
ProcessReset ==
    /\ dbInstance' = 0 /\ handlesCreated' = 0 /\ returned' = {}
    /\ openOk' = TRUE /\ closed' = FALSE /\ pragma' = "none" /\ fkOn' = FALSE
    /\ getDbPromise' = "none" /\ getDbAfterClose' = FALSE
    /\ pc' = [c \in Calls |-> "idle"]
    /\ locals' = [c \in Calls |-> NoLocals]
    /\ rejection' = [c \in Calls |-> NoErr]
    /\ startedAfterInit' = [c \in Calls |-> FALSE]
    /\ crashed' = TRUE
    /\ UNCHANGED <<initialised, origin>>

\* A crash between two statements of an initDb run.
Crash ==
    /\ \E c \in Calls : pc[c] \notin {"idle", "done", "rejected"}
    /\ ProcessReset
    /\ UNCHANGED dbVars

\* A crash inside db.exec, after the first k CREATE TABLE statements.
CrashDuringExec(c, k) ==
    /\ pc[c] = "exec"
    /\ DriverReady
    /\ ConnErr = NoErr
    /\ TablesAfter(k) # tables
    /\ tables' = TablesAfter(k)
    /\ ProcessReset
    /\ UNCHANGED <<users, series, seriesMembers, matches, predictions,
                   ledger, colSeries, colMatch, indexes>>

\* ------------------------------------------------------------------- spec
Next ==
    \/ GetDb
    \/ DriverRunPragma
    \/ CloseDb
    \/ \E c \in Calls : InitDbStart(c)
    \/ \E c \in Calls : InitExec(c)
    \/ \E c \in Calls : InitCount(c)
    \/ \E c \in Calls : InitHash(c)
    \/ \E c \in Calls : InitInsert(c)
    \/ \E c \in Calls : MigInfo(c)
    \/ \E c \in Calls : MigAlterSeries(c)
    \/ \E c \in Calls : MigAlterMatch(c)
    \/ \E c \in Calls : MigBackfill(c)
    \/ \E c \in Calls : MigIndexSeriesUser(c)
    \/ \E c \in Calls : MigIndexMatch(c)
    \/ \E s \in SeriesIds : DeleteSeries(s)
    \/ Crash
    \/ \E c \in Calls, k \in 1..(Len(TableOrder) - 1) : CrashDuringExec(c, k)

Spec == Init /\ [][Next]_vars

\* ----------------------------------------------------------------- claims
StatementPcs == {"exec", "count", "insert", "mig_info", "mig_alter_s",
                 "mig_alter_m", "mig_backfill", "mig_idx_su", "mig_idx_m"}
MigrationPcs == {"mig_info", "mig_alter_s", "mig_alter_m", "mig_backfill",
                 "mig_idx_su", "mig_idx_m"}

\* Call c runs the statement it is waiting to run (the step is c's, and is
\* not the crash that wipes every call).
StatementStep(c) ==
    pc[c] \in StatementPcs /\ pc'[c] # pc[c] /\ pc'[c] # "idle"

\* The error the driver's callback carries for the statement call c runs next.
DriverErrAt(c) ==
    CASE pc[c] = "insert" -> InsertErr(AdminName)
      [] pc[c] = "mig_alter_s" -> AlterErr(colSeries)
      [] pc[c] = "mig_alter_m" -> AlterErr(colMatch)
      [] pc[c] = "mig_backfill" -> BackfillErr
      [] OTHER -> ConnErr

\* No statement deletes a users row and only the bootstrap inserts one: the
\* table was empty before the first initDb call iff it holds no other row.
UsersWasEmpty == \A i \in DOMAIN users : users[i] # BobRow

OneAdmin ==
    Len(users) = 1 /\ users[1].username = AdminName /\ users[1].is_admin = 1

ValidMatch(mid) == \E m \in matches : m.id = mid

\* A users table that was empty before the first initDb call holds, once an
\* initDb call has completed, exactly the bootstrap admin row.
C1_State == initialised /\ UsersWasEmpty => OneAdmin

\* A step of an initDb call that started after an earlier call completed
\* leaves the users table alone and goes neither to the hash nor the INSERT.
C1_Step ==
    \A c \in Calls :
        startedAfterInit[c] /\ pc'[c] # pc[c] /\ pc'[c] # "idle" =>
            /\ users' = users
            /\ pc'[c] \notin {"hash", "insert"}
            /\ rejection'[c] # UniqueErr

\* C1: once an initDb call has completed on the database, a later initDb call
\* (one that starts after that completion) never reaches the password hash or
\* the INSERT, is not rejected by the users table, and leaves the users table
\* as it found it; and a users table that was empty before the first call
\* holds exactly the one bootstrap admin row.
C1_SecondCallKeepsAdmin == []C1_State /\ [][C1_Step]_vars

C1_Witness ==
    /\ ~crashed /\ UsersWasEmpty
    /\ pc[1] = "done" /\ pc[2] = "done" /\ startedAfterInit[2]
    /\ users = <<AdminRow(1)>>

\* The state an uninterrupted initDb run leaves.
FullyMigrated ==
    /\ tables = Tables
    /\ colSeries # "absent" /\ colMatch # "absent"
    /\ indexes = Indexes
    /\ \A i \in DOMAIN ledger :
          ValidMatch(ledger[i].match_id) => ~BackfillTarget(ledger[i])
    /\ Len(users) >= 1
    /\ UsersWasEmpty => OneAdmin

\* C2: after a crash in the middle of an initDb run, an initDb run of the next
\* process, running alone on a connection that stays open, ends fulfilled and
\* leaves the fully migrated database.
C2_RerunConverges ==
    /\ crashed
    /\ pc[1] \in {"done", "rejected"}
    /\ \A d \in Calls : d # 1 => pc[d] = "idle"
    /\ rejection[1] # Misuse
    => pc[1] = "done" /\ FullyMigrated

\* C3: getDb opens at most one connection in a process and every call returns
\* that one handle, also after the handle was closed.
C3_Singleton ==
    /\ handlesCreated <= 1
    /\ Cardinality(returned) <= 1
    /\ returned # {} => returned = {dbInstance}

C3_Witness ==
    getDbAfterClose /\ closed /\ returned = {1} /\ dbInstance = 1

C5_Step(wrap(_)) ==
    \A c \in Calls :
        StatementStep(c) =>
            IF DriverErrAt(c) # NoErr
              THEN pc'[c] = "rejected" /\ rejection'[c] = wrap(DriverErrAt(c))
              ELSE pc'[c] # "rejected" /\ rejection'[c] = NoErr

\* The two values a rejection could carry: a DatabaseError wrapping the
\* driver's error, or the driver's error itself.
DatabaseError(e) == [name |-> "DatabaseError", code |-> e.code]
Bare(e) == e

\* C5 (as stated): a statement the driver fails rejects the wrapper's promise
\* with a DatabaseError carrying the driver's error; a statement it does not
\* fail resolves it.
C5_RejectsWithDatabaseError == [][C5_Step(DatabaseError)]_vars

\* C5 (amended): a statement the driver fails rejects the wrapper's promise
\* with the driver's own error value, and the awaiting initDb call with it;
\* a statement it does not fail resolves the promise.
C5_RejectsWithDriverError == [][C5_Step(Bare)]_vars

C5_Witness ==
    \E c, d \in Calls :
        /\ pc[c] = "rejected" /\ rejection[c] = UniqueErr
        /\ pc[d] = "rejected" /\ rejection[d] = Misuse

C7_Step ==
    \A c \in Calls :
        startedAfterInit[c] /\ pc[c] \in MigrationPcs
        /\ pc'[c] # pc[c] /\ pc'[c] # "idle" =>
            /\ pc'[c] \notin {"mig_alter_s", "mig_alter_m"}
            /\ ledger' = ledger
            /\ colSeries' = colSeries /\ colMatch' = colMatch
            /\ indexes' = indexes
            /\ rejection'[c] \in {NoErr, Misuse}

\* C7: a migration run by a call that started after an initDb run completed
\* on the database issues no ALTER TABLE, changes no row, no column and no
\* index, and no statement of it fails (other than on a closed connection).
C7_RerunIsNoOp == [][C7_Step]_vars

C7_Witness ==
    \E c \in Calls :
        /\ startedAfterInit[c] /\ pc[c] = "done"
        /\ \E i \in DOMAIN ledger :
              /\ ledger[i].match_id # NULL /\ ~ValidMatch(ledger[i].match_id)
              /\ ledger[i].series_id = NULL

\* The backfill UPDATE of call c on an open connection.
C8_Step ==
    \A c \in Calls :
        pc[c] = "mig_backfill" /\ pc'[c] # pc[c] /\ pc'[c] # "idle"
        /\ ConnErr = NoErr =>
            /\ pc'[c] # "rejected"
            /\ \A i \in DOMAIN ledger :
                  BackfillTarget(ledger[i]) /\ ~ValidMatch(ledger[i].match_id)
                  => ledger'[i].series_id = NULL

\* C8: the backfill UPDATE raises no error and leaves series_id NULL in every
\* row whose series_id is unset and whose match_id names no existing match,
\* on the nullable legacy column and on the NOT NULL column initDb declares.
C8_DanglingStaysNull == [][C8_Step]_vars

\* A caller's DELETE FROM series on the schema initDb creates, on an open
\* connection with enforcement on.
DeleteCase ==
    /\ DriverReady /\ ConnErr = NoErr /\ fkOn
    /\ colSeries = "declared" /\ colMatch = "declared"

Referenced(s) ==
    \E i \in DOMAIN ledger :
        \/ ledger[i].series_id = s
        \/ \E m \in matches : m.series_id = s /\ ledger[i].match_id = m.id

\* C9 (as stated): the delete succeeds, removes the series' series_members
\* rows and leaves the points_ledger rows as they were.
C9_DeleteSucceeds ==
    \A s \in series : DeleteCase => DeleteErr(s) = NoErr

\* The delete is rejected exactly when a points_ledger row references the
\* series.
C9_State ==
    \A s \in series :
        DeleteCase =>
            DeleteErr(s) = (IF Referenced(s) THEN ForeignKeyErr ELSE NoErr)

\* A delete that goes through removes the series_members rows of the series,
\* and only those, and no points_ledger row.
C9_Step ==
    \A s \in SeriesIds :
        DeleteCase /\ s \in series /\ s \notin series' =>
            /\ ~Referenced(s)
            /\ \A sm \in seriesMembers' : sm[1] # s
            /\ \A sm \in seriesMembers : sm[1] # s => sm \in seriesMembers'
            /\ ledger' = ledger

\* C9 (amended): the delete is rejected with a foreign-key error, changing
\* nothing, exactly when a points_ledger row references the series through
\* series_id or through a match of the series; otherwise it succeeds and
\* removes the series row and every series_members row of the series. Either
\* way every points_ledger row stays as it was.
C9_DeleteBlockedOrCascades == []C9_State /\ [][C9_Step]_vars

C9_Witness ==
    /\ DeleteCase
    /\ series = {SeriesA}
    /\ seriesMembers = {<<SeriesA, UserBob>>}
    /\ ledger = <<[match_id |-> MatchA, series_id |-> SeriesA]>>
    /\ DeleteErr(SeriesA) = ForeignKeyErr

\* C10: two initDb calls that overlap on an empty database both end fulfilled
\* and leave exactly one bootstrap admin row.
C10_OverlapBothFulfil ==
    /\ origin = "empty" /\ ~crashed
    /\ \A c \in Calls : pc[c] \in {"done", "rejected"} /\ rejection[c] # Misuse
    => /\ \A c \in Calls : pc[c] = "done"
       /\ OneAdmin

====
